---- MODULE Spec2Model ----
(***************************************************************************)
(* A model of the CSV viewer: the table model CSVTableModel                *)
(* (src/src/views/table_model.py) and the window MainWindow                *)
(* (src/src/views/main_window.py) with its QTableWidget, search bar and    *)
(* the files it reads and writes.                                          *)
(*                                                                         *)
(* The two classes are not connected: MainWindow keeps its cells in the    *)
(* items of a QTableWidget and never constructs a CSVTableModel.  A        *)
(* behaviour therefore drives one of the two objects (variable obj), the   *)
(* other staying as constructed.                                           *)
(*                                                                         *)
(* Text is a sequence of one-character strings, so that strip(), upper(),  *)
(* lower(), the substring test and the number parsing of read_csv are      *)
(* computed, not assumed.                                                  *)
(***************************************************************************)
EXTENDS Integers, Sequences, FiniteSets, TLC

\* ------------------------------------------------------------------ bounds

\* add_row / insertRow are not offered once a table holds MaxRows rows.
MaxRows == 3

\* At most MaxEdits cell edits (setData, or an in-place edit of an item)
\* between two loads.
MaxEdits == 1

\* ------------------------------------------------------------------- text

\* str.strip(): leading and trailing white space removed.
RECURSIVE LStrip(_)
LStrip(t) ==
    IF t # <<>> /\ Head(t) = " " THEN LStrip(Tail(t)) ELSE t

RECURSIVE RStrip(_)
RStrip(t) ==
    IF t # <<>> /\ t[Len(t)] = " " THEN RStrip(SubSeq(t, 1, Len(t) - 1)) ELSE t

Strip(t) == RStrip(LStrip(t))

\* The case of the letters the texts of this model are written with.
UpperChar(c) ==
    CASE c = "a" -> "A" [] c = "b" -> "B" [] c = "c" -> "C" [] c = "e" -> "E"
      [] c = "i" -> "I" [] c = "l" -> "L" [] c = "n" -> "N" [] c = "o" -> "O"
      [] c = "u" -> "U" [] OTHER -> c

LowerChar(c) ==
    CASE c = "A" -> "a" [] c = "B" -> "b" [] c = "C" -> "c" [] c = "E" -> "e"
      [] c = "I" -> "i" [] c = "L" -> "l" [] c = "N" -> "n" [] c = "O" -> "o"
      [] c = "U" -> "u" [] OTHER -> c

\* str.upper() and str.lower().
Upper(t) == [k \in 1..Len(t) |-> UpperChar(t[k])]

Lower(t) == [k \in 1..Len(t) |-> LowerChar(t[k])]

\* needle in hay (Python's substring test; the empty text is in every text).
Contains(needle, hay) ==
    \E k \in 0..(Len(hay) - Len(needle)) :
        SubSeq(hay, k + 1, k + Len(needle)) = needle

T_NULL == <<"N", "U", "L", "L">>

\* -------------------------------------------------- python sequence slices

Max(a, b) == IF a >= b THEN a ELSE b

Min(a, b) == IF a <= b THEN a ELSE b

\* s[:k] of Python: a negative k counts from the end, out-of-range k is clamped.
SliceTo(s, k) ==
    LET stop == IF k < 0 THEN Max(0, Len(s) + k) ELSE Min(k, Len(s))
    IN  SubSeq(s, 1, stop)

\* s[k:] of Python.
SliceFrom(s, k) ==
    LET start == IF k < 0 THEN Max(0, Len(s) + k) ELSE Min(k, Len(s))
    IN  SubSeq(s, start + 1, Len(s))

\* s with its k-th element (1-based) left out.
DropAt(s, k) == SubSeq(s, 1, k - 1) \o SubSeq(s, k + 1, Len(s))

\* ------------------------------------------------------- pandas DataFrame

\* A cell of the DataFrame: None / NaN, or a str.
NA == [na |-> TRUE, s |-> <<>>]

Str(t) == [na |-> FALSE, s |-> t]

\* A DataFrame with a RangeIndex: its column labels and its rows of cells.
Frame(cols, rows) == [columns |-> cols, rows |-> rows]

\* pd.DataFrame(): no column, no row.
EmptyFrame == Frame(<<>>, <<>>)

\* len(df) and len(df.columns).
NRows(d) == Len(d.rows)

NCols(d) == Len(d.columns)

\* The position iloc resolves an integer to on an axis of n entries:
\* -n..-1 count from the end; 0 stands for IndexError (positions are 1-based).
ILoc(k, n) ==
    IF k >= 0 /\ k < n THEN k + 1
    ELSE IF k < 0 /\ k >= -n THEN n + k + 1
    ELSE 0

\* pd.isna(value) or value == "" or value is None
IsNullValue(v) == v.na \/ v.s = <<>>

\* ---------------------------------------------------------- CSVTableModel

VARIABLES
    obj,             \* the object a behaviour drives: "model" or "window"
    df,              \* CSVTableModel._data
    modified_cells,  \* CSVTableModel._modified_cells
    edits,           \* cell edits since the last load
    lastOp           \* the last call, its arguments and what it returned

mvars == <<df, modified_cells>>

VARIABLES
    table_view,    \* the QTableWidget: header labels, items, hidden rows
    search_text,   \* the text the search bar last handed to search_data
    current_file,  \* MainWindow.current_file ("" is None)
    disk,          \* the files, by name
    infobar        \* the InfoBar the last handler showed: none, success, error

wvars == <<table_view, search_text, current_file, disk, infobar>>

Call(op, row, col, text, sel, ret) ==
    [op |-> op, row |-> row, col |-> col, text |-> text, sel |-> sel, ret |-> ret,
     follows |-> ""]

\* The call, marked as made right after the call it undoes or clears.
Following(call, what) == [call EXCEPT !.follows = what]

NoCall == Call("init", 0, 0, <<>>, {}, "None")

\* Normalize as it would be if the stripped text were the one stored.
NormalizeTrimmed(value) ==
    IF Upper(Strip(value)) = T_NULL \/ Strip(value) = <<>> THEN NA ELSE Str(Strip(value))

\* setData's normalisation of the edited text (table_model.py:77-78).
Normalize(value) ==
    IF Upper(Strip(value)) = T_NULL \/ Strip(value) = <<>> THEN NA ELSE Str(value)

\* What data() returns: None, a str, a colour, or the IndexError iloc raises.
Ret(kind, text) == [kind |-> kind, v |-> text]

\* data(index, role).  index.isValid() is false for a negative row or column;
\* a valid index beyond the frame makes iloc raise IndexError.
data(row, col, role) ==
    IF row < 0 \/ col < 0 THEN Ret("None", <<>>)
    ELSE IF role \in {"DisplayRole", "ForegroundRole"} THEN
        (IF row >= NRows(df) \/ col >= NCols(df) THEN Ret("IndexError", <<>>)
         ELSE IF IsNullValue(df.rows[row + 1][col + 1]) THEN
            (IF role = "DisplayRole" THEN Ret("str", T_NULL)
             ELSE Ret("NULL_COLOR", <<>>))
         ELSE IF role = "DisplayRole" THEN Ret("str", df.rows[row + 1][col + 1].s)
         ELSE Ret("None", <<>>))
    ELSE IF role = "BackgroundRole" /\ <<row, col>> \in modified_cells
         THEN Ret("yellow", <<>>)
    ELSE Ret("None", <<>>)

\* setData(index, value, role): the frame, the modified set and the value
\* returned.  iloc takes the index's row() and column() as they are, so the
\* invalid index (-1, -1) addresses the last cell of a frame that has one.
SetDataResult(d, mod, row, col, value, role) ==
    LET r == ILoc(row, NRows(d))
        c == ILoc(col, NCols(d))
    IN  IF role # "EditRole" THEN [df |-> d, modified |-> mod, ret |-> "False"]
        ELSE IF r = 0 \/ c = 0 THEN [df |-> d, modified |-> mod, ret |-> "False"]
        ELSE [df |-> [d EXCEPT !.rows[r][c] = Normalize(value)],
              modified |-> mod \cup {<<row, col>>},
              ret |-> "True"]

\* remove_row(row): drop the row's label, renumber the index.
RemoveRowResult(d, row) ==
    IF 0 <= row /\ row < NRows(d)
    THEN [df |-> [d EXCEPT !.rows = DropAt(d.rows, row + 1)], ret |-> "True"]
    ELSE [df |-> d, ret |-> "False"]

\* RemoveColumnResult as it would be if only the label were dropped.
RemoveColumnLabelOnly(d, column_index) ==
    IF 0 <= column_index /\ column_index < NCols(d)
    THEN [df |-> [d EXCEPT !.columns = DropAt(d.columns, column_index + 1)],
          ret |-> "True"]
    ELSE [df |-> d, ret |-> "False"]

\* remove_column(column_index): drop the column's label from every row.
RemoveColumnResult(d, column_index) ==
    IF 0 <= column_index /\ column_index < NCols(d)
    THEN [df |-> Frame(DropAt(d.columns, column_index + 1),
                       [k \in 1..NRows(d) |-> DropAt(d.rows[k], column_index + 1)]),
          ret |-> "True"]
    ELSE [df |-> d, ret |-> "False"]

\* AddRowResult as it would be with the slices taken at after_row_index:
\* the new row lands before the row, not after it.
AddRowBefore(d, after_row_index) ==
    LET new_row == [k \in 1..NCols(d) |-> NA]
    IN  [df |-> [d EXCEPT !.rows = SliceTo(d.rows, Max(after_row_index, 0))
                                    \o <<new_row>>
                                    \o SliceFrom(d.rows, Max(after_row_index, 0))],
         ret |-> "True"]

\* add_row(after_row_index): concat of the rows up to and including
\* after_row_index, one row of None, and the rows after it.
AddRowResult(d, after_row_index) ==
    LET new_row == [k \in 1..NCols(d) |-> NA]
    IN  [df |-> [d EXCEPT !.rows = SliceTo(d.rows, after_row_index + 1)
                                    \o <<new_row>>
                                    \o SliceFrom(d.rows, after_row_index + 1)],
         ret |-> "True"]

\* The texts an editor hands to setData.
EditTexts ==
    { <<>>, <<" ">>, T_NULL, <<" ", "n", "u", "l", "l">>, <<"A", "l", " ">> }

T_id == <<"i", "d">>

T_name == <<"n", "a", "m", "e">>

T_1 == <<"1">>

T_2 == <<"2">>

T_Alice == <<"A", "l", "i", "c", "e">>

\* The frames update_data is given: two columns and two rows with one empty
\* cell, one column and one row, and the empty frame.  Cells are str or None
\* and column labels are distinct.
Frames ==
    { Frame(<<T_id, T_name>>, << <<Str(T_1), Str(T_Alice)>>, <<Str(T_2), Str(<<>>)>> >>),
      Frame(<<T_name>>, << <<NA>> >>),
      EmptyFrame }

update_data(frame) ==
    /\ obj = "model"
    /\ df' = frame
    /\ modified_cells' = {}
    /\ edits' = 0
    /\ lastOp' = Call("update_data", 0, 0, <<>>, {}, "None")
    /\ UNCHANGED <<obj, wvars>>

setData(row, col, value, role) ==
    /\ obj = "model"
    /\ edits < MaxEdits
    /\ LET res == SetDataResult(df, modified_cells, row, col, value, role)
       IN  /\ df' = res.df
           /\ modified_cells' = res.modified
           /\ lastOp' = Call(IF role = "EditRole" THEN "setData" ELSE "setData_role",
                             row, col, value, {}, res.ret)
    /\ edits' = edits + 1
    /\ UNCHANGED <<obj, wvars>>

remove_row(row) ==
    /\ obj = "model"
    /\ LET res == RemoveRowResult(df, row)
       IN  /\ df' = res.df
           /\ lastOp' = Following(Call("remove_row", row, 0, <<>>, {}, res.ret),
                                  IF lastOp.op = "add_row" /\ lastOp.row + 1 = row
                                  THEN "add_row" ELSE "")
    /\ UNCHANGED <<obj, modified_cells, edits, wvars>>

remove_column(column_index) ==
    /\ obj = "model"
    /\ LET res == RemoveColumnResult(df, column_index)
       IN  /\ df' = res.df
           /\ lastOp' = Call("remove_column", 0, column_index, <<>>, {}, res.ret)
    /\ UNCHANGED <<obj, modified_cells, edits, wvars>>

add_row(after_row_index) ==
    /\ obj = "model"
    /\ NRows(df) < MaxRows
    /\ LET res == AddRowResult(df, after_row_index)
       IN  /\ df' = res.df
           /\ lastOp' = Call("add_row", after_row_index, 0, <<>>, {}, res.ret)
    /\ UNCHANGED <<obj, modified_cells, edits, wvars>>

\* The indexes of the frame's cells.
CellIndexes(d) == (0..(NRows(d) - 1)) \X (0..(NCols(d) - 1))

\* Indexes that address no cell: the invalid index QModelIndex(), whose row()
\* and column() are -1, an index negative in one coordinate, and stale
\* indexes one past the last row or the last column.
OtherIndexes(d) == {<<-1, -1>>, <<-1, 0>>, <<NRows(d), 0>>, <<0, NCols(d)>>}

T_Al_ == <<"A", "l", " ">>

ModelNext ==
    \/ \E frame \in Frames : update_data(frame)
    \/ \E index \in CellIndexes(df), value \in EditTexts :
          setData(index[1], index[2], value, "EditRole")
    \/ \E index \in OtherIndexes(df) :
          setData(index[1], index[2], T_Al_, "EditRole")
    \/ setData(0, 0, T_Alice, "DisplayRole")
    \/ \E row \in -1..NRows(df) : remove_row(row)
    \/ \E column_index \in -1..NCols(df) : remove_column(column_index)
    \/ \E after_row_index \in -2..(NRows(df) - 1) : add_row(after_row_index)

\* -------------------------------------------------------- csv files, pandas

Digits == <<"0", "1", "2", "3", "4", "5", "6", "7", "8", "9">>

IsDigit(c) == \E k \in 1..10 : Digits[k] = c

DigitVal(c) == (CHOOSE k \in 1..10 : Digits[k] = c) - 1

\* An integer literal: digits only.
IsIntText(t) == t # <<>> /\ \A k \in 1..Len(t) : IsDigit(t[k])

\* A decimal literal: digits, a point, digits.
IsDecimalText(t) ==
    \E p \in 2..(Len(t) - 1) :
        /\ t[p] = "."
        /\ IsIntText(SubSeq(t, 1, p - 1))
        /\ IsIntText(SubSeq(t, p + 1, Len(t)))

RECURSIVE ToNat(_)
ToNat(t) ==
    IF t = <<>> THEN 0
    ELSE 10 * ToNat(SubSeq(t, 1, Len(t) - 1)) + DigitVal(t[Len(t)])

\* str(n) of a natural number.
RECURSIVE NatToText(_)
NatToText(n) ==
    IF n < 10 THEN <<Digits[n + 1]>>
    ELSE NatToText(n \div 10) \o <<Digits[(n % 10) + 1]>>

\* The digits of a fraction without its trailing zeros.
RECURSIVE StripZeros(_)
StripZeros(t) ==
    IF t # <<>> /\ t[Len(t)] = "0" THEN StripZeros(SubSeq(t, 1, Len(t) - 1)) ELSE t

\* str(float(t)) for an integer or decimal literal t: "2" -> "2.0",
\* "01.50" -> "1.5".
FloatText(t) ==
    IF IsIntText(t) THEN NatToText(ToNat(t)) \o <<".", "0">>
    ELSE LET p == CHOOSE q \in 2..(Len(t) - 1) : t[q] = "."
             frac == StripZeros(SubSeq(t, p + 1, Len(t)))
         IN  NatToText(ToNat(SubSeq(t, 1, p - 1))) \o <<".">>
                \o (IF frac = <<>> THEN <<"0">> ELSE frac)

\* Fields read_csv reads as NaN (its default na_values that can be written
\* with the letters of this model).
NAValues ==
    { <<>>, T_NULL, <<"n", "u", "l", "l">>, <<"N", "A">>, <<"n", "a", "n">>,
      <<"N", "a", "N">> }

\* A file: absent, or its lines, each the sequence of its fields (the first
\* line is the header).  Quoting makes every text a field, so fields are texts.
NoFile == [exists |-> FALSE, lines |-> <<>>]

File(lines) == [exists |-> TRUE, lines |-> lines]

\* What read_csv makes of one column's fields: the str() of each cell, NA for
\* NaN.  All integers: int64; integers with NaN, or decimals: float64;
\* anything else: the strings as they are.
ParseColumn(fields) ==
    LET present == {k \in 1..Len(fields) : fields[k] \notin NAValues}
        allInt == \A k \in present : IsIntText(fields[k])
        allNum == \A k \in present : IsIntText(fields[k]) \/ IsDecimalText(fields[k])
        hasNA  == present # 1..Len(fields)
    IN  [k \in 1..Len(fields) |->
            IF k \notin present THEN NA
            ELSE IF allInt /\ ~hasNA THEN Str(NatToText(ToNat(fields[k])))
            ELSE IF allNum THEN Str(FloatText(fields[k]))
            ELSE Str(fields[k])]

\* pd.read_csv(file_name): the frame whose cells are the str() of the parsed
\* values, or the exception raised (a missing file, a file with no header).
\* A line shorter than the header is filled with NaN.
read_csv(file) ==
    IF ~file.exists THEN [raised |-> "FileNotFoundError", df |-> EmptyFrame]
    ELSE IF file.lines = <<>> \/ file.lines[1] = <<>>
         THEN [raised |-> "EmptyDataError", df |-> EmptyFrame]
    ELSE LET header == file.lines[1]
             n == Len(file.lines) - 1
             field(i, j) == IF j <= Len(file.lines[i + 1])
                            THEN file.lines[i + 1][j] ELSE <<>>
             col(j) == ParseColumn([i \in 1..n |-> field(i, j)])
         IN  [raised |-> "",
              df |-> Frame(header,
                           [i \in 1..n |-> [j \in 1..Len(header) |-> col(j)[i]]])]

\* df.to_csv(path, index=False): the header line and one line per row, None
\* written as the empty field.
to_csv(d) ==
    File(<<d.columns>> \o
         [i \in 1..NRows(d) |->
            [j \in 1..NCols(d) |->
                IF d.rows[i][j].na THEN <<>> ELSE d.rows[i][j].s]])

\* ------------------------------------------------------------- MainWindow

\* A QTableWidgetItem: its text, and whether its background is the search
\* highlight (Qt.transparent and the default brush both draw nothing).
Item(text, highlight) == [text |-> text, highlight |-> highlight]

\* create_null_item()
create_null_item == Item(T_NULL, FALSE)

Table(headers, items, hidden) ==
    [headers |-> headers, items |-> items, hidden |-> hidden]

\* The widget as constructed: no row, no column.
EmptyTable == Table(<<>>, <<>>, <<>>)

rowCount(tv) == Len(tv.items)

columnCount(tv) == Len(tv.headers)

\* update_table_data(df): setRowCount and setColumnCount keep the rows and
\* columns that stay (and with them a row's hidden flag), the headers are
\* relabelled and every cell gets a new item.
update_table_data(tv, d) ==
    Table(d.columns,
          [i \in 1..NRows(d) |->
             [j \in 1..NCols(d) |->
                IF d.rows[i][j].na THEN create_null_item
                ELSE Item(d.rows[i][j].s, FALSE)]],
          [i \in 1..NRows(d) |-> IF i <= Len(tv.hidden) THEN tv.hidden[i] ELSE FALSE])

\* get_table_data(): the frame of the items' texts, "NULL" read as None.
\* df.loc[i] = row_data raises ValueError on a frame without columns.
get_table_data(tv) ==
    IF columnCount(tv) = 0 /\ rowCount(tv) > 0
    THEN [raised |-> "ValueError", df |-> EmptyFrame]
    ELSE [raised |-> "",
          df |-> Frame(tv.headers,
                       [i \in 1..rowCount(tv) |->
                          [j \in 1..columnCount(tv) |->
                             IF tv.items[i][j].text = T_NULL THEN NA
                             ELSE Str(tv.items[i][j].text)]])]

\* QTableWidget.insertRow(row) followed by add_row's loop of setItem: a row
\* of NULL items at position row (0-based); a row outside 0..rowCount is
\* ignored by the widget.
InsertNullRow(tv, row) ==
    IF row < 0 \/ row > rowCount(tv) THEN tv
    ELSE [tv EXCEPT
            !.items = SubSeq(tv.items, 1, row)
                        \o <<[j \in 1..columnCount(tv) |-> create_null_item]>>
                        \o SubSeq(tv.items, row + 1, rowCount(tv)),
            !.hidden = SubSeq(tv.hidden, 1, row) \o <<FALSE>>
                        \o SubSeq(tv.hidden, row + 1, rowCount(tv))]

\* QTableWidget.removeRow(row)
removeRow(tv, row) ==
    IF row < 0 \/ row >= rowCount(tv) THEN tv
    ELSE [tv EXCEPT !.items = DropAt(tv.items, row + 1),
                    !.hidden = DropAt(tv.hidden, row + 1)]

\* QTableWidget.removeColumn(column)
removeColumn(tv, column) ==
    IF column < 0 \/ column >= columnCount(tv) THEN tv
    ELSE [tv EXCEPT !.headers = DropAt(tv.headers, column + 1),
                    !.items = [i \in 1..rowCount(tv) |-> DropAt(tv.items[i], column + 1)]]

\* SortedReverse as it would be without reverse=True: ascending.
RECURSIVE SortedForward(_)
SortedForward(rows) ==
    IF rows = {} THEN <<>>
    ELSE LET low == CHOOSE r \in rows : \A q \in rows : r <= q
         IN  <<low>> \o SortedForward(rows \ {low})

\* sorted(rows, reverse=True)
RECURSIVE SortedReverse(_)
SortedReverse(rows) ==
    IF rows = {} THEN <<>>
    ELSE LET top == CHOOSE r \in rows : \A q \in rows : q <= r
         IN  <<top>> \o SortedReverse(rows \ {top})

\* The loop of delete_selected_rows: removeRow for each row of the list in turn.
RECURSIVE RemoveRows(_, _)
RemoveRows(tv, selected_rows) ==
    IF selected_rows = <<>> THEN tv
    ELSE RemoveRows(removeRow(tv, Head(selected_rows)), Tail(selected_rows))

\* add_row's argument as show_rows_context_menu computes it.
AfterRowIndex(tv, selected_rows) ==
    IF selected_rows # {}
    THEN CHOOSE r \in selected_rows : \A q \in selected_rows : q <= r
    ELSE rowCount(tv) - 1

\* Whether search_data's scan finds search_text in the item's text.
ItemMatches(item, search) == Contains(search, Lower(item.text))

\* SearchResult as it would be if a blank search text returned before the
\* rows are shown again and the backgrounds reset.
SearchReturnsEarly(tv, text) ==
    LET search == Lower(Strip(text))
    IN  IF search = <<>> THEN tv
        ELSE [tv EXCEPT
                !.items = [i \in 1..rowCount(tv) |->
                             [j \in 1..columnCount(tv) |->
                                Item(tv.items[i][j].text,
                                     ItemMatches(tv.items[i][j], search))]],
                !.hidden = [i \in 1..rowCount(tv) |->
                              ~ \E j \in 1..columnCount(tv) :
                                    ItemMatches(tv.items[i][j], search)]]

\* SearchResult as it would be if the rows without a match were taken out
\* of the widget instead of hidden.
SearchRemovesRows(tv, text) ==
    LET search == Lower(Strip(text))
        keep == {i \in 1..rowCount(tv) :
                    \E j \in 1..columnCount(tv) : ItemMatches(tv.items[i][j], search)}
        gone == {i - 1 : i \in (1..rowCount(tv)) \ keep}
    IN  IF search = <<>>
        THEN [tv EXCEPT !.hidden = [i \in 1..rowCount(tv) |-> FALSE]]
        ELSE RemoveRows(tv, SortedReverse(gone))

\* search_data(text): every row shown and every background reset; then, for
\* a search text that is not blank, matching items replaced by highlighted
\* ones and rows without a match hidden.
SearchResult(tv, text) ==
    LET search == Lower(Strip(text))
        reset == [tv EXCEPT
                    !.hidden = [i \in 1..rowCount(tv) |-> FALSE],
                    !.items = [i \in 1..rowCount(tv) |->
                                 [j \in 1..columnCount(tv) |->
                                    Item(tv.items[i][j].text, FALSE)]]]
    IN  IF search = <<>> THEN reset
        ELSE [reset EXCEPT
                !.items = [i \in 1..rowCount(tv) |->
                             [j \in 1..columnCount(tv) |->
                                Item(tv.items[i][j].text,
                                     ItemMatches(tv.items[i][j], search))]],
                !.hidden = [i \in 1..rowCount(tv) |->
                              ~ \E j \in 1..columnCount(tv) :
                                    ItemMatches(tv.items[i][j], search)]]

\* The names a file dialog returns ("" when it is cancelled).
FileNames == {"data.csv", "missing.csv"}

\* The files at the start: data.csv holds id,name / 1,Alice / 2, ;
\* missing.csv does not exist.
InitialDisk ==
    [f \in FileNames |->
        IF f = "data.csv"
        THEN File(<< <<T_id, T_name>>, <<T_1, T_Alice>>, <<T_2, <<>>>> >>)
        ELSE NoFile]

\* The texts typed into a cell of the widget.
ItemTexts == { <<>>, <<"0", "1">> }

\* The texts typed into the search bar.
SearchTexts == { <<>>, <<" ">>, <<"A", "L", "I", " ">>, <<"n", "u">> }

\* The headers and the texts of the widget's items.
Texts(tv) ==
    [headers |-> tv.headers,
     rows |-> [i \in 1..rowCount(tv) |->
                 [j \in 1..columnCount(tv) |-> tv.items[i][j].text]]]

\* OpenFileResult as it would be with current_file assigned before
\* read_csv is called.
OpenFileAssignsFirst(tv, cur, file_name, files) ==
    IF file_name = ""
    THEN [table_view |-> tv, current_file |-> cur, infobar |-> "none", ret |-> "return"]
    ELSE LET read == read_csv(files[file_name])
         IN  IF read.raised # ""
             THEN [table_view |-> tv, current_file |-> file_name, infobar |-> "error",
                   ret |-> "raised"]
             ELSE [table_view |-> update_table_data(tv, read.df),
                   current_file |-> file_name, infobar |-> "success", ret |-> "done"]

\* open_file() with the name the dialog returned: the widget, current_file
\* and the InfoBar it leaves.
OpenFileResult(tv, cur, file_name, files) ==
    IF file_name = ""
    THEN [table_view |-> tv, current_file |-> cur, infobar |-> "none", ret |-> "return"]
    ELSE LET read == read_csv(files[file_name])
         IN  IF read.raised # ""
             THEN [table_view |-> tv, current_file |-> cur, infobar |-> "error",
                   ret |-> "raised"]
             ELSE [table_view |-> update_table_data(tv, read.df),
                   current_file |-> file_name, infobar |-> "success", ret |-> "done"]

open_file(file_name) ==
    /\ obj = "window"
    /\ LET res == OpenFileResult(table_view, current_file, file_name, disk)
       IN  /\ table_view' = res.table_view
           /\ current_file' = res.current_file
           /\ infobar' = res.infobar
           /\ lastOp' = Call("open_file", 0, 0, <<>>, {}, res.ret)
           /\ edits' = IF res.ret = "done" THEN 0 ELSE edits
    /\ UNCHANGED <<obj, search_text, disk, mvars>>

\* save_file(); io_ok is whether the file can be written.
save_file(io_ok) ==
    /\ obj = "window"
    /\ IF current_file = ""
       THEN /\ infobar' = "none"
            /\ lastOp' = Call("save_file", 0, 0, <<>>, {}, "return")
            /\ UNCHANGED disk
       ELSE LET got == get_table_data(table_view)
            IN  IF got.raised # "" \/ ~io_ok
                THEN /\ infobar' = "error"
                     /\ lastOp' = Call("save_file", 0, 0, <<>>, {}, "raised")
                     /\ UNCHANGED disk
                ELSE /\ disk' = [disk EXCEPT ![current_file] = to_csv(got.df)]
                     /\ infobar' = "success"
                     /\ lastOp' = Call("save_file", 0, 0, <<>>, {}, "done")
    /\ UNCHANGED <<obj, table_view, search_text, current_file, edits, mvars>>

save_file_as(file_name, io_ok) ==
    /\ obj = "window"
    /\ IF file_name = ""
       THEN /\ infobar' = "none"
            /\ lastOp' = Call("save_file_as", 0, 0, <<>>, {}, "return")
            /\ UNCHANGED <<disk, current_file>>
       ELSE LET got == get_table_data(table_view)
            IN  IF got.raised # "" \/ ~io_ok
                THEN /\ infobar' = "error"
                     /\ lastOp' = Call("save_file_as", 0, 0, <<>>, {}, "raised")
                     /\ UNCHANGED <<disk, current_file>>
                ELSE /\ disk' = [disk EXCEPT ![file_name] = to_csv(got.df)]
                     /\ current_file' = file_name
                     /\ infobar' = "success"
                     /\ lastOp' = Call("save_file_as", 0, 0, <<>>, {}, "done")
    /\ UNCHANGED <<obj, table_view, search_text, edits, mvars>>

\* The in-place editor of the widget writes the typed text into the item.
edit_item(row, col, text) ==
    /\ obj = "window"
    /\ edits < MaxEdits
    /\ 0 <= row /\ row < rowCount(table_view)
    /\ 0 <= col /\ col < columnCount(table_view)
    /\ table_view' = [table_view EXCEPT !.items[row + 1][col + 1].text = text]
    /\ edits' = edits + 1
    /\ infobar' = "none"
    /\ lastOp' = Call("edit_item", row, col, text, {}, "done")
    /\ UNCHANGED <<obj, search_text, current_file, disk, mvars>>

\* "Add New Row" of the rows' context menu, with the rows selected.
window_add_row(selected_rows) ==
    /\ obj = "window"
    /\ rowCount(table_view) < MaxRows
    /\ LET after_row_index == AfterRowIndex(table_view, selected_rows)
       IN  /\ table_view' = InsertNullRow(table_view, after_row_index + 1)
           /\ lastOp' = Call("add_row", after_row_index, 0, <<>>, {}, "done")
    /\ infobar' = "success"
    /\ UNCHANGED <<obj, search_text, current_file, disk, edits, mvars>>

\* "Delete Selected Row(s)" of the rows' context menu.
delete_selected_rows(selected_rows) ==
    /\ obj = "window"
    /\ IF selected_rows = {}
       THEN /\ infobar' = "none"
            /\ lastOp' = Call("delete_selected_rows", 0, 0, <<>>, {}, "return")
            /\ UNCHANGED table_view
       ELSE /\ table_view' = RemoveRows(table_view, SortedReverse(selected_rows))
            /\ infobar' = "success"
            /\ lastOp' = Following(
                    Call("delete_selected_rows", 0, 0, <<>>, selected_rows, "done"),
                    IF lastOp.op = "add_row" /\ selected_rows = {lastOp.row + 1}
                    THEN "add_row" ELSE "")
    /\ UNCHANGED <<obj, search_text, current_file, disk, edits, mvars>>

\* The header's context menu at a column (logicalIndexAt gives -1 off the
\* columns, and then no menu is shown), and its "Delete Column".
delete_column(column_index) ==
    /\ obj = "window"
    /\ IF column_index < 0
       THEN /\ infobar' = "none"
            /\ lastOp' = Call("delete_column", 0, column_index, <<>>, {}, "return")
            /\ UNCHANGED table_view
       ELSE /\ table_view' = removeColumn(table_view, column_index)
            /\ infobar' = "success"
            /\ lastOp' = Call("delete_column", 0, column_index, <<>>, {}, "done")
    /\ UNCHANGED <<obj, search_text, current_file, disk, edits, mvars>>

search_data(text) ==
    /\ obj = "window"
    /\ table_view' = SearchResult(table_view, text)
    /\ search_text' = text
    /\ infobar' = "none"
    /\ lastOp' = Following(Call("search_data", 0, 0, text, {}, "done"),
                           IF Strip(search_text) # <<>> THEN "search" ELSE "")
    /\ UNCHANGED <<obj, current_file, disk, edits, mvars>>

\* The handlers that work on the widget in memory (the file dialog gives
\* data.csv).
WindowNext ==
    \/ open_file("data.csv")
    \/ \E selected_rows \in {{}} \cup {{r} : r \in 0..(rowCount(table_view) - 1)} :
          window_add_row(selected_rows)
    \/ \E selected_rows \in (SUBSET (0..(rowCount(table_view) - 1))) \ {{}} :
          delete_selected_rows(selected_rows)
    \/ \E column_index \in -1..(columnCount(table_view) - 1) : delete_column(column_index)
    \/ \E text \in SearchTexts : search_data(text)

\* An editing session on data.csv: the in-place edit of an item, a row
\* appended, one row or one column deleted, and the search bar.
EditNext ==
    \/ open_file("data.csv")
    \/ window_add_row({})
    \/ \E selected_rows \in {{r} : r \in 0..(rowCount(table_view) - 1)} :
          delete_selected_rows(selected_rows)
    \/ \E column_index \in 0..(columnCount(table_view) - 1) : delete_column(column_index)
    \/ \E text \in SearchTexts : search_data(text)
    \/ \E row \in 0..(rowCount(table_view) - 1), col \in 0..(columnCount(table_view) - 1),
          text \in ItemTexts : edit_item(row, col, text)

\* The handlers that read and write files, and the structural ones.
FileNext ==
    \/ \E file_name \in FileNames \cup {""} : open_file(file_name)
    \/ \E io_ok \in BOOLEAN : save_file(io_ok)
    \/ \E file_name \in {"", "data.csv"}, io_ok \in BOOLEAN : save_file_as(file_name, io_ok)
    \/ \E selected_rows \in {{}} \cup {{r} : r \in 0..(rowCount(table_view) - 1)} :
          window_add_row(selected_rows)
    \/ \E selected_rows \in SUBSET (0..(rowCount(table_view) - 1)) :
          delete_selected_rows(selected_rows)
    \/ \E column_index \in -1..(columnCount(table_view) - 1) : delete_column(column_index)

Init ==
    /\ obj \in {"model", "window"}
    /\ df = EmptyFrame
    /\ modified_cells = {}
    /\ edits = 0
    /\ lastOp = NoCall
    /\ table_view = EmptyTable
    /\ search_text = <<>>
    /\ current_file = ""
    /\ disk = InitialDisk
    /\ infobar = "none"

vars == <<obj, df, modified_cells, edits, lastOp, table_view, search_text,
          current_file, disk, infobar>>

Next == ModelNext \/ WindowNext

\* A session on the table model, or on the window's widget: load, rows
\* added and deleted, columns deleted, search.
Spec == Init /\ [][Next]_vars

\* A session of the window.
InitWindow == Init /\ obj = "window"

\* The window's widget with its items edited in place as well.
SpecEdit == InitWindow /\ [][EditNext]_vars

\* The window with its files: open, save, save as, rows added and deleted,
\* columns deleted.
SpecFile == InitWindow /\ [][FileNext]_vars

\* ------------------------------------------------------------- properties

InBounds(d, row, col) == 0 <= row /\ row < NRows(d) /\ 0 <= col /\ col < NCols(d)

\* Only white space (or nothing).
IsBlank(t) == \A k \in 1..Len(t) : t[k] = " "

\* The word NULL in any case, with white space around it.
SpellsNull(t) ==
    \E a \in 0..Len(t) :
        /\ a + 4 <= Len(t)
        /\ \A k \in 1..a : t[k] = " "
        /\ t[a + 1] \in {"N", "n"}
        /\ t[a + 2] \in {"U", "u"}
        /\ t[a + 3] \in {"L", "l"}
        /\ t[a + 4] \in {"L", "l"}
        /\ \A k \in (a + 5)..Len(t) : t[k] = " "

\* C1: after setData on a cell of the frame, data() reads NULL when the text
\* written was blank or spelled NULL (any case, white space around it), and
\* reads the very text written, untrimmed, otherwise.
C1_SetThenRead ==
    (obj = "model" /\ lastOp.op = "setData" /\ InBounds(df, lastOp.row, lastOp.col)) =>
        /\ lastOp.ret = "True"
        /\ data(lastOp.row, lastOp.col, "DisplayRole") =
              Ret("str", IF IsBlank(lastOp.text) \/ SpellsNull(lastOp.text)
                         THEN T_NULL ELSE lastOp.text)

\* A cell was just written " null" and reads NULL.
C1_Witness ==
    /\ obj = "model"
    /\ lastOp.op = "setData"
    /\ lastOp.text = <<" ", "n", "u", "l", "l">>
    /\ InBounds(df, lastOp.row, lastOp.col)
    /\ data(lastOp.row, lastOp.col, "DisplayRole") = Ret("str", T_NULL)

\* The rows of old without those at the (0-based) indexes of S, in order:
\* the row at r is afterwards at r minus the number of indexes of S below r.
Survivors(old, new, S) ==
    /\ Len(new) = Len(old) - Cardinality(S)
    /\ \A r \in (0..(Len(old) - 1)) \ S :
          new[r - Cardinality({d \in S : d < r}) + 1] = old[r + 1]

\* C2: deleting the rows at a set S of valid indexes (remove_row: one index)
\* leaves the other rows in their order, each moved down by the number of
\* deleted rows below it, cells unchanged, and the row count less by |S|.
C2_DeleteRows ==
    [][ /\ (obj = "model" /\ lastOp'.op = "remove_row"
                /\ 0 <= lastOp'.row /\ lastOp'.row < NRows(df))
            => /\ lastOp'.ret = "True"
               /\ Survivors(df.rows, df'.rows, {lastOp'.row})
               /\ df'.columns = df.columns
        /\ (obj = "window" /\ lastOp'.op = "delete_selected_rows" /\ lastOp'.sel # {})
            => /\ Survivors(table_view.items, table_view'.items, lastOp'.sel)
               /\ Survivors(table_view.hidden, table_view'.hidden, lastOp'.sel)
               /\ table_view'.headers = table_view.headers
      ]_vars

\* Two of three rows were just deleted from the widget, the last row among
\* the survivors' predecessors: one row is left.
C2_Witness ==
    /\ obj = "window"
    /\ lastOp.op = "delete_selected_rows"
    /\ lastOp.sel = {0, 1}
    /\ rowCount(table_view) = 1

\* C5: add_row(i) followed by remove_row(i + 1) (in the widget: insertRow and
\* removeRow) gives back the table as it was, for i = -1 and every row i.
C5_InsertThenDelete ==
    /\ obj = "model" =>
          \A i \in -1..(NRows(df) - 1) :
              LET added == AddRowResult(df, i)
                  removed == RemoveRowResult(added.df, i + 1)
              IN  /\ added.ret = "True"
                  /\ NRows(added.df) = NRows(df) + 1
                  /\ removed.ret = "True"
                  /\ removed.df = df
    /\ obj = "window" =>
          \A i \in -1..(rowCount(table_view) - 1) :
              LET added == InsertNullRow(table_view, i + 1)
              IN  /\ rowCount(added) = rowCount(table_view) + 1
                  /\ removeRow(added, i + 1) = table_view

\* A row was added after the last of two rows and removed again.
C5_Witness ==
    /\ obj = "model"
    /\ lastOp.op = "remove_row"
    /\ lastOp.follows = "add_row"
    /\ lastOp.ret = "True"
    /\ lastOp.row = 2
    /\ NRows(df) = 2

\* C6: every pair of the modified-cell set is a cell of the frame.
C6_ModifiedInBounds ==
    \A cell \in modified_cells : InBounds(df, cell[1], cell[2])

\* C9: a write addressed outside the frame returns False, changes no cell and
\* adds nothing to the modified-cell set; a read there yields no cell text.
C9_OutOfBoundsFails ==
    [][ (obj = "model" /\ lastOp'.op = "setData"
            /\ ~InBounds(df, lastOp'.row, lastOp'.col))
        => /\ lastOp'.ret = "False"
           /\ df' = df
           /\ modified_cells' = modified_cells
           /\ data(lastOp'.row, lastOp'.col, "DisplayRole").kind # "str"
      ]_vars

\* s without its element at the (0-based) index c, said element by element.
Without(old, new, c) ==
    /\ Len(new) = Len(old) - 1
    /\ \A k \in 0..(Len(old) - 1) :
          /\ k < c => new[k + 1] = old[k + 1]
          /\ k > c => new[k] = old[k + 1]

\* C10: deleting the column at a valid index c leaves the other labels in
\* their order, every row its other cells in their order, and the row count;
\* at an index that is no column nothing changes and the call does not
\* succeed.
C10_DeleteColumn ==
    [][ /\ (obj = "model" /\ lastOp'.op = "remove_column")
            => IF 0 <= lastOp'.col /\ lastOp'.col < NCols(df)
               THEN /\ lastOp'.ret = "True"
                    /\ Without(df.columns, df'.columns, lastOp'.col)
                    /\ NRows(df') = NRows(df)
                    /\ \A i \in 1..NRows(df) :
                          Without(df.rows[i], df'.rows[i], lastOp'.col)
               ELSE /\ lastOp'.ret = "False"
                    /\ df' = df
                    /\ modified_cells' = modified_cells
        /\ (obj = "window" /\ lastOp'.op = "delete_column")
            => IF 0 <= lastOp'.col /\ lastOp'.col < columnCount(table_view)
               THEN /\ Without(table_view.headers, table_view'.headers, lastOp'.col)
                    /\ rowCount(table_view') = rowCount(table_view)
                    /\ \A i \in 1..rowCount(table_view) :
                          Without(table_view.items[i], table_view'.items[i], lastOp'.col)
               ELSE /\ lastOp'.ret = "return"
                    /\ infobar' # "success"
                    /\ table_view' = table_view
      ]_vars

\* Column 0 of the frame id,name with its two rows was just removed:
\* columns == ["name"], and both rows are still there.
C10_Witness ==
    /\ obj = "model"
    /\ lastOp.op = "remove_column"
    /\ lastOp.col = 0
    /\ lastOp.ret = "True"
    /\ df.columns = <<T_name>>
    /\ NRows(df) = 2

\* What the widget shows after reading a frame into it afresh.
Shown(d) == Texts(update_table_data(EmptyTable, d))

\* C3: writing the widget's table to a file and reading the file back gives
\* the same headers and the same rows of cell texts, NULL cells as NULL
\* (said of the tables that hold a column: columns only come from a load).
C3_RoundTrip ==
    (obj = "window" /\ columnCount(table_view) > 0) =>
        LET got == get_table_data(table_view)
            back == read_csv(to_csv(got.df))
        IN  /\ got.raised = ""
            /\ back.raised = ""
            /\ Shown(back.df) = Texts(table_view)

\* No row of the widget is hidden and no item is highlighted.
AllShown(tv) ==
    /\ \A i \in 1..rowCount(tv) : ~tv.hidden[i]
    /\ \A i \in 1..rowCount(tv) : \A j \in 1..columnCount(tv) : ~tv.items[i][j].highlight

\* The headers and texts the last load put into the widget.  Under SpecEdit no
\* file is written, so the file named by current_file is still the one read.
LoadedTexts == Shown(read_csv(disk[current_file]).df)

\* C4 as claimed: clearing the search text after a search that was not blank
\* leaves the rows of the last load, all shown, none highlighted.
C4_ClearRestoresLoaded ==
    (obj = "window" /\ current_file # "" /\ lastOp.op = "search_data"
        /\ IsBlank(lastOp.text) /\ lastOp.follows = "search")
    => /\ Texts(table_view) = LoadedTexts
       /\ AllShown(table_view)

\* C4 as amended: a search that is not blank followed by a blank one leaves
\* the headers and the rows of texts the widget held before the search, in
\* their order, every row shown and no item highlighted.
C4_ClearRestoresRows ==
    obj = "window" =>
        \A s \in {t \in SearchTexts : ~IsBlank(t)} :
          \A c \in {t \in SearchTexts : IsBlank(t)} :
            LET cleared == SearchResult(SearchResult(table_view, s), c)
            IN  /\ Texts(cleared) = Texts(table_view)
                /\ AllShown(cleared)

\* The search text was just cleared after a search that hid a row, in a
\* widget that holds a row added since the load.
C4_Witness ==
    /\ obj = "window"
    /\ lastOp.op = "search_data"
    /\ IsBlank(lastOp.text)
    /\ lastOp.follows = "search"
    /\ current_file # ""
    /\ rowCount(table_view) = 3
    /\ AllShown(table_view)

\* The value of an item is NULL when its text is "NULL" (get_table_data);
\* a NULL value contains no text.
ValueContains(item, search) ==
    item.text # T_NULL /\ Contains(search, Lower(item.text))

\* C7: right after a search that is not blank a row is shown exactly when
\* the value of one of its cells contains the search text, case ignored;
\* with a blank search text every row is shown.
C7_VisibleIffMatch ==
    obj = "window" =>
        /\ (lastOp.op = "search_data" /\ ~IsBlank(lastOp.text)) =>
              \A i \in 1..rowCount(table_view) :
                  (~table_view.hidden[i]) <=>
                      \E j \in 1..columnCount(table_view) :
                          ValueContains(table_view.items[i][j], Lower(Strip(lastOp.text)))
        /\ IsBlank(search_text) =>
              \A i \in 1..rowCount(table_view) : ~table_view.hidden[i]

\* C8: a handler that fails shows the error InfoBar and leaves the widget
\* (headers, items, rows) and current_file as they were.
C8_FailureLeavesState ==
    [][ (obj = "window" /\ lastOp'.ret = "raised")
        => /\ infobar' = "error"
           /\ table_view' = table_view
           /\ current_file' = current_file
      ]_vars

\* Opening a file failed while the table of data.csv was in the widget.
C8_Witness ==
    /\ obj = "window"
    /\ lastOp.op = "open_file"
    /\ lastOp.ret = "raised"
    /\ infobar = "error"
    /\ current_file = "data.csv"
    /\ rowCount(table_view) >= 1

\* The cell at (row, col) is reported as modified: data() gives it the
\* highlight background exactly when the pair is in the modified-cell set.
Flagged(mod, row, col) == <<row, col>> \in mod

\* The index a row (or column) at k has after the one at gone is removed,
\* and after one is inserted at put.
AfterRemoval(k, gone) == IF k > gone THEN k - 1 ELSE k

AfterInsertion(k, put) == IF k >= put THEN k + 1 ELSE k

\* C11: the modified flag follows the cell.  A call of setData never clears
\* a flag and newly flags at most the cell it addressed; after remove_row,
\* remove_column and add_row every surviving cell is flagged at its new
\* index exactly if it was flagged at its old one, and the cells of an added
\* row are not flagged; after update_data no cell is flagged.
C11_CellStateMachine ==
    [][ obj = "model" =>
        /\ lastOp'.op \in {"setData", "setData_role"} =>
              \A cell \in CellIndexes(df) :
                  /\ Flagged(modified_cells, cell[1], cell[2])
                        => Flagged(modified_cells', cell[1], cell[2])
                  /\ (Flagged(modified_cells', cell[1], cell[2])
                        /\ ~Flagged(modified_cells, cell[1], cell[2]))
                        => (lastOp'.op = "setData" /\ cell = <<lastOp'.row, lastOp'.col>>)
        /\ (lastOp'.op = "remove_row" /\ lastOp'.ret = "True") =>
              \A cell \in CellIndexes(df) :
                  cell[1] # lastOp'.row =>
                      (Flagged(modified_cells', AfterRemoval(cell[1], lastOp'.row), cell[2])
                          <=> Flagged(modified_cells, cell[1], cell[2]))
        /\ (lastOp'.op = "remove_column" /\ lastOp'.ret = "True") =>
              \A cell \in CellIndexes(df) :
                  cell[2] # lastOp'.col =>
                      (Flagged(modified_cells', cell[1], AfterRemoval(cell[2], lastOp'.col))
                          <=> Flagged(modified_cells, cell[1], cell[2]))
        /\ (lastOp'.op = "add_row" /\ -1 <= lastOp'.row /\ lastOp'.row < NRows(df)) =>
              /\ \A cell \in CellIndexes(df) :
                    Flagged(modified_cells', AfterInsertion(cell[1], lastOp'.row + 1), cell[2])
                        <=> Flagged(modified_cells, cell[1], cell[2])
              /\ \A c \in 0..(NCols(df) - 1) :
                    ~Flagged(modified_cells', lastOp'.row + 1, c)
        /\ lastOp'.op = "update_data" =>
              \A cell \in CellIndexes(df') : ~Flagged(modified_cells', cell[1], cell[2])
      ]_vars

\* C12: after add_row(i), for i = -1 and every row i, the new row is at
\* i + 1 with the rows that were there before around it in their order, all
\* its cells are NULL, and none of them is reported as modified.
C12_NewRowNullUnmodified ==
    [][ /\ (obj = "model" /\ lastOp'.op = "add_row"
                /\ -1 <= lastOp'.row /\ lastOp'.row < NRows(df))
            => /\ lastOp'.ret = "True"
               /\ NRows(df') = NRows(df) + 1
               /\ Survivors(df'.rows, df.rows, {lastOp'.row + 1})
               /\ \A c \in 1..NCols(df) : IsNullValue(df'.rows[lastOp'.row + 2][c])
               /\ \A c \in 0..(NCols(df) - 1) :
                     ~Flagged(modified_cells', lastOp'.row + 1, c)
        /\ (obj = "window" /\ lastOp'.op = "add_row")
            => /\ rowCount(table_view') = rowCount(table_view) + 1
               /\ Survivors(table_view'.items, table_view.items, {lastOp'.row + 1})
               /\ \A c \in 1..columnCount(table_view) :
                     table_view'.items[lastOp'.row + 2][c] = create_null_item
      ]_vars

\* C13: a call of search_data leaves the widget's headers and the text of
\* every item as they were (and so the row and column counts), the frame
\* get_table_data builds and the file it would be written as are the same
\* before and after, rows that the search hides are rows of that frame, and
\* neither current_file nor a file changes.
C13_SearchDisplayOnly ==
    [][ (obj = "window" /\ lastOp'.op = "search_data")
        => /\ Texts(table_view') = Texts(table_view)
           /\ rowCount(table_view') = rowCount(table_view)
           /\ columnCount(table_view') = columnCount(table_view)
           /\ get_table_data(table_view') = get_table_data(table_view)
           /\ to_csv(get_table_data(table_view').df) = to_csv(get_table_data(table_view).df)
           /\ get_table_data(table_view').raised = ""
                 => NRows(get_table_data(table_view').df) = rowCount(table_view')
           /\ current_file' = current_file
           /\ disk' = disk
      ]_vars

\* A search has just hidden a row of a widget that holds an edited item; the
\* frame to be saved has both rows.
C13_Witness ==
    /\ obj = "window"
    /\ lastOp.op = "search_data"
    /\ edits > 0
    /\ rowCount(table_view) = 2
    /\ \E i \in 1..rowCount(table_view) : table_view.hidden[i]
    /\ \E i \in 1..rowCount(table_view) : ~table_view.hidden[i]
    /\ get_table_data(table_view).raised = ""
    /\ NRows(get_table_data(table_view).df) = 2

====
